---------------------------- MODULE Spec2Model ----------------------------
(***************************************************************************)
(* Model of exif-fov-estimation: the metadata-to-metric pipeline of        *)
(* src/src/compute.js, the metadata normalisation of src/src/exif.js, the  *)
(* analyze() entry point (src/unnamed/part_001, imported by batch.js as    *)
(* ./index.js) and the batch loop of src/src/batch.js.                     *)
(*                                                                         *)
(* Numbers.  A JavaScript number is modelled exactly, as a rational        *)
(* <<n, d>> in lowest terms with d > 0.  The JavaScript value null (and    *)
(* a missing field) is NULL.  A quantity that involves a square root       *)
(* (the 35 mm diagonal, the pixel diagonal) is a surd [q |-> rational,     *)
(* r |-> squarefree natural] standing for q * sqrt(r).  An angle           *)
(* rad2deg(2 * atan(x)) is kept as its argument x (a surd, or INF when     *)
(* the division by zero gives Infinity): x |-> rad2deg(2*atan(x)) is       *)
(* strictly increasing, so two angles are equal exactly when their         *)
(* arguments are.                                                          *)
(***************************************************************************)
EXTENDS Integers, Sequences, FiniteSets, TLC

\* null (and a missing field): the empty tuple, so that it compares with numbers.
NULL == <<>>
\* NaN, as parseFloat returns it for a string that starts with no number.
NaN == <<0, 0>>

\* ---------------------------------------------------------------- numbers

Abs(n) == IF n < 0 THEN 0 - n ELSE n

RECURSIVE GCD(_, _)
GCD(a, b) == IF b = 0 THEN a ELSE GCD(b, a % b)

\* The rational n/d (d # 0) in lowest terms with a positive denominator.
Rat(n, d) ==
    LET g == GCD(Abs(n), Abs(d))
        s == IF d < 0 THEN 0 - 1 ELSE 1
    IN  <<(s * n) \div g, (s * d) \div g>>

Num(n) == <<n, 1>>
Zero == Num(0)
One == Num(1)

RAdd(a, b) == Rat(a[1] * b[2] + b[1] * a[2], a[2] * b[2])
RSub(a, b) == Rat(a[1] * b[2] - b[1] * a[2], a[2] * b[2])
RMul(a, b) == Rat(a[1] * b[1], a[2] * b[2])
RDiv(a, b) == Rat(a[1] * b[2], a[2] * b[1])
RLeq(a, b) == a[1] * b[2] <= b[1] * a[2]
RLt(a, b) == a[1] * b[2] < b[1] * a[2]
RSq(a) == RMul(a, a)

\* JavaScript ToNumber on a value that is a number or null: null becomes 0.
ToNumber(v) == IF v = NULL THEN Zero ELSE v

\* JavaScript truthiness of a value that is a number or null: null and 0 are
\* falsy, every other number (negative ones included) is truthy.
Truthy(v) == v # NULL /\ v # Zero

\* The largest k with k*k dividing r (r >= 1).
SquarePart(r) ==
    LET S == {k \in 1..r : k * k <= r /\ r % (k * k) = 0}
    IN  CHOOSE k \in S : \A j \in S : j <= k

\* q * sqrt(r) in normal form (r squarefree; 0 is 0 * sqrt(1)).
Surd(q, r) ==
    IF q = Zero \/ r = 0 THEN [q |-> Zero, r |-> 1]
    ELSE LET k == SquarePart(r)
         IN  [q |-> RMul(q, Num(k)), r |-> r \div (k * k)]

\* Math.sqrt of a natural number.
Sqrt(n) == Surd(One, n)

\* Infinity, as a surd: the result of dividing a positive number by 0.
INF == [q |-> <<1, 0>>, r |-> 1]

\* rational * surd, rational / surd  (1/sqrt(r) = sqrt(r)/r)
SurdScale(a, s) == Surd(RMul(a, s.q), s.r)
RDivSurd(a, s) == Surd(RDiv(a, RMul(s.q, Num(s.r))), s.r)
SurdMul(s, t) == Surd(RMul(s.q, t.q), s.r * t.r)

\* ------------------------------------------------------------- compute.js

SENSOR_WIDTH_35MM == 36
SENSOR_HEIGHT_35MM == 24
SENSOR_DIAG_35MM ==
    Sqrt(SENSOR_WIDTH_35MM * SENSOR_WIDTH_35MM
         + SENSOR_HEIGHT_35MM * SENSOR_HEIGHT_35MM)

\* The table FOCAL_PLANE_UNIT_MM: unit tag -> millimetres per unit.
FOCAL_PLANE_UNIT_MM ==
    (Num(2) :> Rat(254, 10)) @@ (Num(3) :> Num(10))
        @@ (Num(4) :> Num(1)) @@ (Num(5) :> Rat(1, 1000))

\* focalPlaneUnitMul without the test for unit 1 (no absolute unit).
focalPlaneUnitMul_NoUnitAsInch(unitTag) ==
    IF unitTag \in DOMAIN FOCAL_PLANE_UNIT_MM
    THEN FOCAL_PLANE_UNIT_MM[unitTag]
    ELSE FOCAL_PLANE_UNIT_MM[Num(2)]

focalPlaneUnitMul(unitTag) ==
    IF unitTag = Num(1) THEN NULL
    ELSE IF unitTag \in DOMAIN FOCAL_PLANE_UNIT_MM
         THEN FOCAL_PLANE_UNIT_MM[unitTag]
         ELSE FOCAL_PLANE_UNIT_MM[Num(2)]

\* closeFocusCorrectionFactor without its `d <= 0` guard.
closeFocusCorrectionFactor_NoGuard(focalLengthMm, focusDistM) ==
    IF ~Truthy(focusDistM) \/ RLeq(focusDistM, Zero) THEN One
    ELSE RAdd(One,
              RDiv(ToNumber(focalLengthMm),
                   RSub(RMul(Num(1000), focusDistM), ToNumber(focalLengthMm))))

closeFocusCorrectionFactor(focalLengthMm, focusDistM) ==
    IF ~Truthy(focusDistM) \/ RLeq(focusDistM, Zero) THEN One
    ELSE LET d == RSub(RMul(Num(1000), focusDistM), ToNumber(focalLengthMm))
         IN  IF RLeq(d, Zero) THEN One
             ELSE RAdd(One, RDiv(ToNumber(focalLengthMm), d))

isRotated(orientation) ==
    /\ RLeq(Num(5), ToNumber(orientation))
    /\ RLeq(ToNumber(orientation), Num(8))

\* adjustForOrientation with the range test off by one (orientation > 5).
adjustForOrientation_From6(width, height, orientation) ==
    IF RLt(Num(5), ToNumber(orientation)) /\ RLeq(ToNumber(orientation), Num(8))
    THEN [width |-> height, height |-> width]
    ELSE [width |-> width, height |-> height]

adjustForOrientation(width, height, orientation) ==
    IF isRotated(orientation)
    THEN [width |-> height, height |-> width]
    ELSE [width |-> width, height |-> height]

computeActualSensorDimensions(meta) ==
    LET unitMul == focalPlaneUnitMul(meta.focalPlaneUnit)
        sensorWidth ==
            IF Truthy(meta.focalPlaneXRes) /\ Truthy(meta.width)
            THEN RMul(RDiv(meta.width, meta.focalPlaneXRes), unitMul)
            ELSE NULL
        sensorHeight ==
            IF Truthy(meta.focalPlaneYRes) /\ Truthy(meta.height)
            THEN RMul(RDiv(meta.height, meta.focalPlaneYRes), unitMul)
            ELSE NULL
    IN  IF unitMul = NULL THEN NULL
        ELSE IF sensorWidth = NULL /\ sensorHeight = NULL THEN NULL
        ELSE [sensorWidth |-> sensorWidth, sensorHeight |-> sensorHeight]

\* f35mmFromFocalPlane taking the width crop factor alone when both axes
\* resolved, instead of the mean.
f35mmFromFocalPlane_WidthOnly(meta) ==
    IF ~Truthy(meta.focalLength) THEN NULL
    ELSE LET sensor == computeActualSensorDimensions(meta)
         IN  IF sensor = NULL THEN NULL
             ELSE LET cropX ==
                          IF Truthy(sensor.sensorWidth)
                          THEN RDiv(Num(SENSOR_WIDTH_35MM), sensor.sensorWidth)
                          ELSE NULL
                      cropFactor ==
                          IF Truthy(sensor.sensorHeight) /\ cropX = NULL
                          THEN RDiv(Num(SENSOR_HEIGHT_35MM), sensor.sensorHeight)
                          ELSE cropX
                  IN  IF cropFactor = NULL THEN NULL
                      ELSE RMul(meta.focalLength, cropFactor)

f35mmFromFocalPlane(meta) ==
    IF ~Truthy(meta.focalLength) THEN NULL
    ELSE LET sensor == computeActualSensorDimensions(meta)
         IN  IF sensor = NULL THEN NULL
             ELSE LET cropX ==
                          IF Truthy(sensor.sensorWidth)
                          THEN RDiv(Num(SENSOR_WIDTH_35MM), sensor.sensorWidth)
                          ELSE NULL
                      cropFactor ==
                          IF Truthy(sensor.sensorHeight)
                          THEN LET cropFactorY ==
                                       RDiv(Num(SENSOR_HEIGHT_35MM),
                                            sensor.sensorHeight)
                               IN  IF cropX = NULL THEN cropFactorY
                                   ELSE RDiv(RAdd(cropX, cropFactorY), Num(2))
                          ELSE cropX
                  IN  IF cropFactor = NULL THEN NULL
                      ELSE RMul(meta.focalLength, cropFactor)

\* The error getF35mm throws when no strategy applies.
ResolutionError == "Cannot determine 35 mm-equivalent focal length."

\* getF35mm with strategies 1 and 2 in the wrong order.
getF35mm_ScaleFirst(meta) ==
    IF Truthy(meta.focalLength) /\ Truthy(meta.scaleFactor35efl)
    THEN [ok |-> TRUE, value |-> RMul(meta.focalLength, meta.scaleFactor35efl)]
    ELSE IF Truthy(meta.focalLengthIn35mm)
    THEN [ok |-> TRUE, value |-> meta.focalLengthIn35mm]
    ELSE IF f35mmFromFocalPlane(meta) # NULL
    THEN [ok |-> TRUE, value |-> f35mmFromFocalPlane(meta)]
    ELSE [ok |-> FALSE, error |-> ResolutionError]

\* getF35mm falling back to the bare focal length instead of throwing.
getF35mm_FocalFallback(meta) ==
    IF Truthy(meta.focalLengthIn35mm)
    THEN [ok |-> TRUE, value |-> meta.focalLengthIn35mm]
    ELSE IF Truthy(meta.focalLength) /\ Truthy(meta.scaleFactor35efl)
    THEN [ok |-> TRUE, value |-> RMul(meta.focalLength, meta.scaleFactor35efl)]
    ELSE IF f35mmFromFocalPlane(meta) # NULL
    THEN [ok |-> TRUE, value |-> f35mmFromFocalPlane(meta)]
    ELSE IF Truthy(meta.focalLength)
    THEN [ok |-> TRUE, value |-> meta.focalLength]
    ELSE [ok |-> FALSE, error |-> ResolutionError]

\* getF35mm: [ok |-> TRUE, value |-> number] on return,
\*           [ok |-> FALSE, error |-> message] on throw.
getF35mm(meta) ==
    IF Truthy(meta.focalLengthIn35mm)
    THEN [ok |-> TRUE, value |-> meta.focalLengthIn35mm]
    ELSE IF Truthy(meta.focalLength) /\ Truthy(meta.scaleFactor35efl)
    THEN [ok |-> TRUE, value |-> RMul(meta.focalLength, meta.scaleFactor35efl)]
    ELSE LET fromPlane == f35mmFromFocalPlane(meta)
         IN  IF fromPlane # NULL THEN [ok |-> TRUE, value |-> fromPlane]
             ELSE [ok |-> FALSE, error |-> ResolutionError]

\* The argument x of rad2deg(2 * atan(x)) for x = dim / (2 * f35mm), dim a
\* surd; dim / 0 is Infinity in JavaScript (dim > 0).
FovArg(dim, f35mm) ==
    IF f35mm = Zero THEN INF
    ELSE SurdScale(RDiv(One, RMul(Num(2), f35mm)), dim)

computeFov(f35mm) ==
    [hfov |-> FovArg(Surd(Num(SENSOR_WIDTH_35MM), 1), f35mm),
     vfov |-> FovArg(Surd(Num(SENSOR_HEIGHT_35MM), 1), f35mm),
     dfov |-> FovArg(SENSOR_DIAG_35MM, f35mm)]

\* computeDiagonalPixelFocalLength with the square of height forgotten:
\* Math.sqrt(width ** 2 + height).
computeDiagonalPixelFocalLength_HeightUnsquared(f35mm, width, height) ==
    LET sumsq == RAdd(RSq(width), height)
        diagPixels == Surd(Rat(1, sumsq[2]), sumsq[1] * sumsq[2])
    IN  SurdMul(RDivSurd(f35mm, SENSOR_DIAG_35MM), diagPixels)

computeDiagonalPixelFocalLength(f35mm, width, height) ==
    LET sumsq == RAdd(RSq(width), RSq(height))
        \* Math.sqrt(n/d) = sqrt(n*d)/d
        diagPixels == Surd(Rat(1, sumsq[2]), sumsq[1] * sumsq[2])
    IN  SurdMul(RDivSurd(f35mm, SENSOR_DIAG_35MM), diagPixels)


\* ---------------------------------------------------------------- exif.js

\* A raw tag value as exiftool.read returns it: absent, a number, or a string
\* (a sequence of characters), e.g. "78 mm" or "Rotate 90 CW".
Absent == [kind |-> "null"]
RawNum(r) == [kind |-> "number", num |-> r]
RawStr(chars) == [kind |-> "string", chars |-> chars]

Digits == <<"0", "1", "2", "3", "4", "5", "6", "7", "8", "9">>
IsDigit(c) == \E i \in 1..10 : Digits[i] = c
DigitVal(c) == (CHOOSE i \in 1..10 : Digits[i] = c) - 1

\* The length of the longest prefix of s[i..] made of digits.
RECURSIVE DigitRun(_, _)
DigitRun(s, i) ==
    IF i <= Len(s) /\ IsDigit(s[i]) THEN 1 + DigitRun(s, i + 1) ELSE 0

\* The natural number written by the digits s[i .. i+n-1].
RECURSIVE DigitsValue(_, _, _)
DigitsValue(s, i, n) ==
    IF n = 0 THEN 0
    ELSE 10 * DigitsValue(s, i, n - 1) + DigitVal(s[i + n - 1])

RECURSIVE Pow10(_)
Pow10(n) == IF n = 0 THEN 1 ELSE 10 * Pow10(n - 1)

RECURSIVE SkipSpaces(_, _)
SkipSpaces(s, i) ==
    IF i <= Len(s) /\ s[i] = " " THEN SkipSpaces(s, i + 1) ELSE i

\* parseFloat on a string: leading blanks, an optional sign, digits with an
\* optional fraction; whatever follows is ignored; NaN when no number starts
\* the string.  (Exponents and "Infinity" do not occur in the inputs.)
parseFloat(s) ==
    LET i0 == SkipSpaces(s, 1)
        neg == i0 <= Len(s) /\ s[i0] = "-"
        i1 == IF i0 <= Len(s) /\ (s[i0] = "-" \/ s[i0] = "+")
              THEN i0 + 1 ELSE i0
        nInt == DigitRun(s, i1)
        dot == i1 + nInt <= Len(s) /\ s[i1 + nInt] = "."
        nFrac == IF dot THEN DigitRun(s, i1 + nInt + 1) ELSE 0
        mag == RAdd(Num(DigitsValue(s, i1, nInt)),
                    Rat(DigitsValue(s, i1 + nInt + 1, nFrac), Pow10(nFrac)))
    IN  IF nInt = 0 /\ nFrac = 0 THEN NaN
        ELSE IF neg THEN RSub(Zero, mag) ELSE mag

parseNum(val) ==
    IF val.kind = "null" THEN NULL
    ELSE IF val.kind = "number" THEN val.num
    ELSE LET n == parseFloat(val.chars)
         IN  IF n = NaN THEN NULL ELSE n

\* a ?? b
Coalesce(a, b) == IF a # NULL THEN a ELSE b

\* RegExp.test for a literal pattern: pat occurs in s.
Contains(s, pat) ==
    \E i \in 1..Len(s) :
        /\ i + Len(pat) - 1 <= Len(s)
        /\ \A j \in 1..Len(pat) : s[i + j - 1] = pat[j]

\* The Orientation block of extractExif.
normaliseOrientation(val) ==
    IF val.kind = "null" THEN Num(1)
    ELSE IF val.kind = "number" THEN val.num
    ELSE IF Contains(val.chars, <<"9", "0">>) THEN Num(6)
    ELSE IF Contains(val.chars, <<"2", "7", "0">>) THEN Num(8)
    ELSE IF Contains(val.chars, <<"1", "8", "0">>) THEN Num(3)
    ELSE Num(1)

NoExifError == "No EXIF data found"
DimensionsError == "Could not determine image pixel dimensions from EXIF data."

\* The width and the height extractExif reads from the raw tags: the first of
\* three tags that parses to a number, null when none does.
widthOf(raw) ==
    Coalesce(parseNum(raw.ImageWidth),
        Coalesce(parseNum(raw.ExifImageWidth),
            Coalesce(parseNum(raw.PixelXDimension), NULL)))
heightOf(raw) ==
    Coalesce(parseNum(raw.ImageHeight),
        Coalesce(parseNum(raw.ExifImageHeight),
            Coalesce(parseNum(raw.PixelYDimension), NULL)))

\* extractExif on a file: file.exif tells whether exiftool.read returned a tag
\* object, file.tags is that object.
extractExif(file) ==
    LET raw == file.tags
        width == widthOf(raw)
        height == heightOf(raw)
    IN  IF ~file.exif THEN [ok |-> FALSE, error |-> NoExifError]
        ELSE IF ~Truthy(width) \/ ~Truthy(height)
        THEN [ok |-> FALSE, error |-> DimensionsError]
        ELSE [ok |-> TRUE,
              value |->
                [width |-> width,
                 height |-> height,
                 orientation |-> normaliseOrientation(raw.Orientation),
                 focalLength |-> parseNum(raw.FocalLength),
                 focalLengthIn35mm |-> parseNum(raw.FocalLengthIn35mmFormat),
                 scaleFactor35efl |-> parseNum(raw.ScaleFactor35efl),
                 focalPlaneXRes |-> parseNum(raw.FocalPlaneXResolution),
                 focalPlaneYRes |-> parseNum(raw.FocalPlaneYResolution),
                 focalPlaneUnit |-> parseNum(raw.FocalPlaneResolutionUnit),
                 digitalZoomRatio |-> parseNum(raw.DigitalZoomRatio),
                 focusDistance |->
                     Coalesce(parseNum(raw.FocusDistance),
                         Coalesce(parseNum(raw.SubjectDistance),
                             Coalesce(parseNum(raw.ApproximateFocusDistance),
                                      NULL)))]]

\* ------------------------------------------------------ index.js: analyze

\* The result record without the HFOV/VFOV swap.
resultRecord_NoFovSwap(filePath, meta, f35mm, visual, fov, fPixel) ==
    [file |-> filePath,
     rawWidth |-> meta.width,
     rawHeight |-> meta.height,
     visualWidth |-> visual.width,
     visualHeight |-> visual.height,
     orientation |-> meta.orientation,
     focalLength |-> meta.focalLength,
     focalLengthIn35mm |-> f35mm,
     scaleFactor35efl |-> meta.scaleFactor35efl,
     fPixelDiagonal |-> fPixel,
     hfov |-> fov.hfov,
     vfov |-> fov.vfov,
     dfov |-> fov.dfov,
     focusDistance |-> meta.focusDistance]

\* The result record analyze builds (its return statement), with the
\* HFOV/VFOV swap for portrait orientations applied to fov.
resultRecord(filePath, meta, f35mm, visual, fov, fPixel) ==
    [file |-> filePath,
     rawWidth |-> meta.width,
     rawHeight |-> meta.height,
     visualWidth |-> visual.width,
     visualHeight |-> visual.height,
     orientation |-> meta.orientation,
     focalLength |-> meta.focalLength,
     focalLengthIn35mm |-> f35mm,
     scaleFactor35efl |-> meta.scaleFactor35efl,
     fPixelDiagonal |-> fPixel,
     hfov |-> IF isRotated(meta.orientation) THEN fov.vfov ELSE fov.hfov,
     vfov |-> IF isRotated(meta.orientation) THEN fov.hfov ELSE fov.vfov,
     dfov |-> fov.dfov,
     focusDistance |-> meta.focusDistance]

\* The close-focus factor analyze multiplies into the focal length.
correctionOf(meta, applyCloseFocusCorrection) ==
    IF applyCloseFocusCorrection
    THEN closeFocusCorrectionFactor(meta.focalLength, meta.focusDistance)
    ELSE One

\* analyze handing the corrected focal length to the pixel focal-length
\* calculator as well.
analyzeResolved_CorrectedPixel(filePath, meta, f35mm, applyCloseFocusCorrection) ==
    resultRecord(filePath, meta, f35mm,
        adjustForOrientation(meta.width, meta.height, meta.orientation),
        computeFov(RMul(f35mm, correctionOf(meta, applyCloseFocusCorrection))),
        computeDiagonalPixelFocalLength(
            RMul(f35mm, correctionOf(meta, applyCloseFocusCorrection)),
            meta.width, meta.height))

\* analyze after getF35mm has returned f35mm.
analyzeResolved(filePath, meta, f35mm, applyCloseFocusCorrection) ==
    resultRecord(filePath, meta, f35mm,
        adjustForOrientation(meta.width, meta.height, meta.orientation),
        computeFov(RMul(f35mm, correctionOf(meta, applyCloseFocusCorrection))),
        computeDiagonalPixelFocalLength(f35mm, meta.width, meta.height))

\* analyze after extractExif has resolved to meta.
analyzeMeta(filePath, meta, f35, applyCloseFocusCorrection) ==
    IF ~f35.ok THEN f35
    ELSE [ok |-> TRUE,
          value |-> analyzeResolved(filePath, meta, f35.value,
                                    applyCloseFocusCorrection)]

analyzeExtracted(filePath, ex, applyCloseFocusCorrection) ==
    IF ~ex.ok THEN ex
    ELSE analyzeMeta(filePath, ex.value, getF35mm(ex.value),
                     applyCloseFocusCorrection)

\* analyze(filePath, {applyCloseFocusCorrection}) on the file found at
\* filePath: [ok |-> TRUE, value |-> result record] when it resolves,
\* [ok |-> FALSE, error |-> message] when it rejects.
analyze(filePath, file, applyCloseFocusCorrection) ==
    analyzeExtracted(filePath, extractExif(file), applyCloseFocusCorrection)

\* ------------------------------------------------------------- input sets

\* Values of the numeric metadata fields handed to the compute.js functions:
\* absent, zero, negative and positive ones.
FocalVals == {NULL, Zero, Num(0 - 10), Num(10)}
F35Vals == {NULL, Zero, Num(0 - 50), Num(50)}
ScaleVals == {NULL, Zero, Rat(3, 2)}
ResVals == {NULL, Zero, Num(0 - 100), Num(100)}
\* Y resolutions, with one that differs from every X resolution, so that the
\* two per-axis crop factors of a 6 x 4 image can differ.
YResVals == {NULL, Zero, Num(100), Num(200)}
UnitVals == {NULL, Num(1), Num(2), Num(3), Num(4), Num(5), Num(7)}
OrientationVals == {NULL} \cup {Num(o) : o \in 0..9}
DistVals == {NULL, Zero, Num(0 - 1), Rat(1, 100), Rat(1, 200), Rat(1, 2), Num(1)}
PixelVals == {Num(3), Num(4), Num(6)}
F35Args == {Num(10), Num(50), Rat(3, 2)}

MetaPool ==
    [width : {NULL, Num(6)}, height : {NULL, Num(4)},
     orientation : {Num(1)},
     focalLength : FocalVals,
     focalLengthIn35mm : F35Vals,
     scaleFactor35efl : ScaleVals,
     focalPlaneXRes : ResVals,
     focalPlaneYRes : YResVals,
     focalPlaneUnit : UnitVals,
     digitalZoomRatio : {NULL},
     focusDistance : {NULL}]

\* Strings exiftool returns.
StrTenMm == <<"1", "0", ".", "0", " ", "m", "m">>
StrHalfM == <<"0", ".", "5", " ", "m">>
StrUnknown == <<"u", "n", "k", "n", "o", "w", "n">>
StrRotate90 == <<"R", "o", "t", "a", "t", "e", " ", "9", "0", " ", "C", "W">>
StrRotate270 ==
    <<"R", "o", "t", "a", "t", "e", " ", "2", "7", "0", " ", "C", "W">>
StrRotate180 == <<"R", "o", "t", "a", "t", "e", " ", "1", "8", "0">>
StrHorizontal == <<"H", "o", "r", "i", "z", "o", "n", "t", "a", "l">>

\* Dimension tags every other tag combination is tried with ...
WidthTags ==
    {[ImageWidth |-> RawNum(Num(6)), ExifImageWidth |-> Absent,
      PixelXDimension |-> Absent],
     [ImageWidth |-> RawStr(StrUnknown), ExifImageWidth |-> Absent,
      PixelXDimension |-> RawNum(Num(6))]}
HeightTags ==
    {[ImageHeight |-> RawNum(Num(4)), ExifImageHeight |-> Absent,
      PixelYDimension |-> Absent]}
\* ... and dimension tags that are missing, zero or negative, tried with a few.
OddWidthTags ==
    {[ImageWidth |-> Absent, ExifImageWidth |-> Absent,
      PixelXDimension |-> Absent],
     [ImageWidth |-> RawNum(Zero), ExifImageWidth |-> RawNum(Num(6)),
      PixelXDimension |-> Absent],
     [ImageWidth |-> Absent, ExifImageWidth |-> RawNum(Num(0 - 6)),
      PixelXDimension |-> Absent]}
OddHeightTags ==
    {[ImageHeight |-> Absent, ExifImageHeight |-> Absent,
      PixelYDimension |-> Absent],
     [ImageHeight |-> RawNum(Zero), ExifImageHeight |-> RawNum(Num(4)),
      PixelYDimension |-> Absent],
     [ImageHeight |-> RawStr(StrUnknown), ExifImageHeight |-> Absent,
      PixelYDimension |-> Absent]}
OrientationTags ==
    {Absent, RawNum(Num(3)), RawNum(Num(6)), RawNum(Num(9)),
     RawStr(StrRotate90), RawStr(StrRotate270), RawStr(StrRotate180),
     RawStr(StrHorizontal)}
FocalLengthTags ==
    {Absent, RawStr(StrTenMm), RawNum(Zero), RawNum(Num(0 - 10))}
F35Tags == {Absent, RawNum(Num(50)), RawNum(Zero)}
ScaleTags == {Absent, RawNum(Rat(3, 2))}
PlaneTags ==
    {[FocalPlaneXResolution |-> Absent, FocalPlaneYResolution |-> Absent,
      FocalPlaneResolutionUnit |-> Absent],
     [FocalPlaneXResolution |-> RawNum(Num(100)),
      FocalPlaneYResolution |-> RawNum(Num(100)),
      FocalPlaneResolutionUnit |-> RawNum(Num(4))],
     [FocalPlaneXResolution |-> RawNum(Num(0 - 100)),
      FocalPlaneYResolution |-> RawNum(Num(100)),
      FocalPlaneResolutionUnit |-> RawNum(Num(1))]}
FocusTags ==
    {[FocusDistance |-> Absent, SubjectDistance |-> Absent,
      ApproximateFocusDistance |-> Absent],
     [FocusDistance |-> RawStr(StrHalfM), SubjectDistance |-> Absent,
      ApproximateFocusDistance |-> Absent],
     [FocusDistance |-> Absent, SubjectDistance |-> RawNum(Rat(1, 100)),
      ApproximateFocusDistance |-> Absent],
     [FocusDistance |-> Absent, SubjectDistance |-> Absent,
      ApproximateFocusDistance |-> RawNum(Num(0 - 1))]}

Tags(w, h, o, fl, f35, sf, pl, fd) ==
    [ImageWidth |-> w.ImageWidth, ExifImageWidth |-> w.ExifImageWidth,
     PixelXDimension |-> w.PixelXDimension,
     ImageHeight |-> h.ImageHeight, ExifImageHeight |-> h.ExifImageHeight,
     PixelYDimension |-> h.PixelYDimension,
     Orientation |-> o,
     FocalLength |-> fl,
     FocalLengthIn35mmFormat |-> f35,
     ScaleFactor35efl |-> sf,
     FocalPlaneXResolution |-> pl.FocalPlaneXResolution,
     FocalPlaneYResolution |-> pl.FocalPlaneYResolution,
     FocalPlaneResolutionUnit |-> pl.FocalPlaneResolutionUnit,
     DigitalZoomRatio |-> Absent,
     FocusDistance |-> fd.FocusDistance,
     SubjectDistance |-> fd.SubjectDistance,
     ApproximateFocusDistance |-> fd.ApproximateFocusDistance]

AbsentPlane == CHOOSE p \in PlaneTags : p.FocalPlaneXResolution = Absent
AbsentFocus ==
    CHOOSE f \in FocusTags :
        /\ f.FocusDistance = Absent
        /\ f.SubjectDistance = Absent
        /\ f.ApproximateFocusDistance = Absent

\* A file for which exiftool.read returns nothing.
NoExifFile ==
    [exif |-> FALSE,
     tags |-> Tags(CHOOSE w \in OddWidthTags :
                       w.ImageWidth = Absent /\ w.ExifImageWidth = Absent,
                   CHOOSE h \in OddHeightTags :
                       h.ImageHeight = Absent /\ h.ExifImageHeight = Absent,
                   Absent, Absent, Absent, Absent, AbsentPlane, AbsentFocus)]

FilePool ==
    {NoExifFile}
    \cup
    {[exif |-> TRUE, tags |-> Tags(w, h, o, fl, f35, sf, pl, fd)] :
        w \in WidthTags, h \in HeightTags, o \in OrientationTags,
        fl \in FocalLengthTags, f35 \in F35Tags, sf \in ScaleTags,
        pl \in PlaneTags, fd \in FocusTags}
    \cup
    {[exif |-> TRUE,
      tags |-> Tags(w, h, o, Absent, f35, Absent, AbsentPlane, AbsentFocus)] :
        w \in WidthTags \cup OddWidthTags, h \in HeightTags \cup OddHeightTags,
        o \in {Absent, RawNum(Num(6))}, f35 \in F35Tags}

\* ------------------------------------------------------------------ state

VARIABLES
    op,          \* the exported function a caller has invoked, or "idle"
    args,        \* its arguments
    result,      \* what it returned (or the error it threw)
    phase,       \* batch.js main: "off", "start", "loop", "summary", "done",
                 \* "crashed"
    entries,     \* the assets directory: name -> entry, or NoEntry
    imageFiles,  \* the names main iterates over, in order
    idx,         \* position of the for..of loop in imageFiles
    successes,
    failures,
    log          \* the analyze calls of the loop so far: name and outcome

callVars == <<op, args, result>>
batchVars == <<phase, entries, imageFiles, idx, successes, failures, log>>
vars == <<op, args, result, phase, entries, imageFiles, idx, successes,
          failures, log>>

NoArgs == [none |-> TRUE]

CallIdle ==
    /\ op = "idle"
    /\ args = NoArgs
    /\ result = NoArgs

BatchOff ==
    /\ phase = "off"
    /\ entries = <<>>
    /\ imageFiles = <<>>
    /\ idx = 0
    /\ successes = 0
    /\ failures = 0
    /\ log = <<>>

\* ------------------------------------------- callers of the exported API

Init == CallIdle /\ BatchOff

CallGetF35mm ==
    /\ op = "idle"
    /\ \E meta \in MetaPool :
        /\ op' = "getF35mm"
        /\ args' = [meta |-> meta]
        /\ result' = getF35mm(meta)
    /\ UNCHANGED batchVars

CallCloseFocusCorrectionFactor ==
    /\ op = "idle"
    /\ \E f \in FocalVals, dist \in DistVals :
        /\ op' = "closeFocusCorrectionFactor"
        /\ args' = [focalLengthMm |-> f, focusDistM |-> dist]
        /\ result' = closeFocusCorrectionFactor(f, dist)
    /\ UNCHANGED batchVars

CallAdjustForOrientation ==
    /\ op = "idle"
    /\ \E w \in PixelVals, h \in PixelVals, o \in OrientationVals :
        /\ op' = "adjustForOrientation"
        /\ args' = [width |-> w, height |-> h, orientation |-> o]
        /\ result' = adjustForOrientation(w, h, o)
    /\ UNCHANGED batchVars

CallComputeDiagonalPixelFocalLength ==
    /\ op = "idle"
    /\ \E f \in F35Args, w \in PixelVals, h \in PixelVals :
        /\ op' = "computeDiagonalPixelFocalLength"
        /\ args' = [f35mm |-> f, width |-> w, height |-> h]
        /\ result' = computeDiagonalPixelFocalLength(f, w, h)
    /\ UNCHANGED batchVars

CallAnalyze ==
    /\ op = "idle"
    /\ \E file \in FilePool, applyCloseFocusCorrection \in BOOLEAN :
        /\ op' = "analyze"
        /\ args' = [file |-> file,
                    applyCloseFocusCorrection |-> applyCloseFocusCorrection]
        /\ result' = analyze("img", file, applyCloseFocusCorrection)
    /\ UNCHANGED batchVars

Return ==
    /\ op # "idle"
    /\ op' = "idle"
    /\ args' = NoArgs
    /\ result' = NoArgs
    /\ UNCHANGED batchVars

Next ==
    \/ CallGetF35mm
    \/ CallCloseFocusCorrectionFactor
    \/ CallAdjustForOrientation
    \/ CallComputeDiagonalPixelFocalLength
    \/ CallAnalyze
    \/ Return

Spec == Init /\ [][Next]_vars

\* ------------------------------------------------------- batch.js: main

\* The largest number of entries in the assets directory.
MaxFiles == 3

ExtJpg == <<".", "j", "p", "g">>
ExtJpgUpper == <<".", "J", "P", "G">>
ExtPng == <<".", "p", "n", "g">>
ExtTxt == <<".", "t", "x", "t">>

SUPPORTED_EXTENSIONS ==
    {ExtJpg, <<".", "j", "p", "e", "g">>, ExtPng, <<".", "t", "i", "f", "f">>,
     <<".", "t", "i", "f">>, <<".", "h", "e", "i", "c">>,
     <<".", "h", "e", "i", "f">>, <<".", "a", "v", "i", "f">>,
     <<".", "w", "e", "b", "p">>, <<".", "d", "n", "g">>,
     <<".", "c", "r", "2">>, <<".", "n", "e", "f">>, <<".", "a", "r", "w">>}

UpperLetters == <<"A", "B", "C", "D", "E", "F", "G", "H", "I", "J", "K", "L", "M",
                  "N", "O", "P", "Q", "R", "S", "T", "U", "V", "W", "X", "Y", "Z">>
LowerLetters == <<"a", "b", "c", "d", "e", "f", "g", "h", "i", "j", "k", "l", "m",
                  "n", "o", "p", "q", "r", "s", "t", "u", "v", "w", "x", "y", "z">>

toLowerCase(s) ==
    [i \in 1..Len(s) |->
        IF \E k \in 1..26 : UpperLetters[k] = s[i]
        THEN LowerLetters[CHOOSE k \in 1..26 : UpperLetters[k] = s[i]]
        ELSE s[i]]

\* Files of the assets directory, by what analyze makes of them.
GoodFile ==
    [exif |-> TRUE,
     tags |-> [NoExifFile.tags EXCEPT
                  !.ImageWidth = RawNum(Num(6)),
                  !.ImageHeight = RawNum(Num(4)),
                  !.FocalLengthIn35mmFormat = RawNum(Num(50))]]
RotatedFile ==
    [GoodFile EXCEPT !.tags.Orientation = RawStr(StrRotate270)]
UnresolvableFile ==
    [GoodFile EXCEPT !.tags.FocalLengthIn35mmFormat = Absent]

\* A directory entry: the extension of its name and the file behind it.  The
\* entry's name is its index in `entries`; names sort as their indices do.
NoEntry == [present |-> FALSE]
Entry(ext, file) == [present |-> TRUE, ext |-> ext, file |-> file]
EntryPool ==
    {NoEntry, Entry(ExtJpg, GoodFile), Entry(ExtJpgUpper, RotatedFile),
     Entry(ExtJpg, UnresolvableFile), Entry(ExtPng, NoExifFile),
     Entry(ExtTxt, GoodFile)}

BatchInit ==
    /\ CallIdle
    /\ phase = "start"
    /\ entries \in [1..MaxFiles -> EntryPool]
    /\ imageFiles = <<>>
    /\ idx = 0
    /\ successes = 0
    /\ failures = 0
    /\ log = <<>>

\* The names in S (a set of numbers) in ascending order: Array.prototype.sort.
RECURSIVE sorted(_)
sorted(S) ==
    IF S = {} THEN <<>>
    ELSE LET m == CHOOSE x \in S : \A y \in S : x <= y
         IN  <<m>> \o sorted(S \ {m})

\* readdir resolves; the entries with a supported extension, sorted.
ReadDir ==
    /\ phase = "start"
    /\ imageFiles' =
          sorted({n \in DOMAIN entries :
                     /\ entries[n].present
                     /\ toLowerCase(entries[n].ext) \in SUPPORTED_EXTENSIONS})
    /\ idx' = 1
    /\ successes' = 0
    /\ failures' = 0
    /\ phase' = "loop"
    /\ UNCHANGED <<entries, log>>
    /\ UNCHANGED callVars

\* readdir rejects (the directory cannot be read): main rejects before the
\* loop, whatever the directory holds.
ReadDirFails ==
    /\ phase = "start"
    /\ phase' = "crashed"
    /\ UNCHANGED <<entries, imageFiles, idx, successes, failures, log>>
    /\ UNCHANGED callVars

\* The counters when a failure is not counted.
tally_FailureDropped(r, counters) ==
    IF r.ok
    THEN [successes |-> counters.successes + 1, failures |-> counters.failures]
    ELSE [successes |-> counters.successes, failures |-> counters.failures]

\* The counters after the try/catch around analyze's outcome r.
tally(r, counters) ==
    IF r.ok
    THEN [successes |-> counters.successes + 1, failures |-> counters.failures]
    ELSE [successes |-> counters.successes, failures |-> counters.failures + 1]

\* One pass of the for..of body.
Iterate ==
    /\ phase = "loop"
    /\ idx <= Len(imageFiles)
    /\ \E r \in {analyze(imageFiles[idx], entries[imageFiles[idx]].file, FALSE)} :
        /\ successes' =
              tally(r, [successes |-> successes, failures |-> failures]).successes
        /\ failures' =
              tally(r, [successes |-> successes, failures |-> failures]).failures
        /\ log' = Append(log, [name |-> imageFiles[idx], ok |-> r.ok])
    /\ idx' = idx + 1
    /\ UNCHANGED <<phase, entries, imageFiles>>
    /\ UNCHANGED callVars

\* The loop is over: the summary line is printed.
Summary ==
    /\ phase = "loop"
    /\ idx > Len(imageFiles)
    /\ phase' = "summary"
    /\ UNCHANGED <<entries, imageFiles, idx, successes, failures, log>>
    /\ UNCHANGED callVars

\* await shutdown()
Shutdown ==
    /\ phase = "summary"
    /\ phase' = "done"
    /\ UNCHANGED <<entries, imageFiles, idx, successes, failures, log>>
    /\ UNCHANGED callVars

BatchNext ==
    \/ ReadDir
    \/ ReadDirFails
    \/ Iterate
    \/ Summary
    \/ Shutdown

\* A pass of the loop body completes, with whatever outcome: every Iterate
\* step is such a step.  Fairness is stated on it (its enabling condition is
\* the loop's own: an image is left).
LoopPass ==
    /\ phase = "loop"
    /\ idx <= Len(imageFiles)
    /\ idx' = idx + 1
    /\ \E b \in BOOLEAN :
        /\ log' = Append(log, [name |-> imageFiles[idx], ok |-> b])
        /\ successes' = IF b THEN successes + 1 ELSE successes
        /\ failures' = IF b THEN failures ELSE failures + 1
    /\ UNCHANGED <<phase, entries, imageFiles>>
    /\ UNCHANGED callVars

\* main is one chain of awaits on promises that settle (analyze resolves or
\* rejects, shutdown resolves): a step that can run does run.
BatchSpec ==
    /\ BatchInit
    /\ [][BatchNext]_vars
    /\ WF_vars(ReadDir \/ ReadDirFails)
    /\ WF_vars(LoopPass)
    /\ WF_vars(Summary)
    /\ WF_vars(Shutdown)

\* ------------------------------------------------------------ properties

\* The metadata record analyze worked on (when extractExif resolved).
MetaOf(file) == extractExif(file).value

\* The same file with another Orientation tag.
WithOrientation(file, o) == [file EXCEPT !.tags.Orientation = RawNum(Num(o))]

Present(v) == v # NULL

\* C1 (as stated): whenever focalLengthIn35mm is present, getF35mm returns
\* exactly it; whenever it is absent and focalLength and scaleFactor35efl are
\* both present, getF35mm returns focalLength x scaleFactor35efl.
C1_PresentWins ==
    op = "getF35mm" =>
        /\ Present(args.meta.focalLengthIn35mm) =>
              result = [ok |-> TRUE, value |-> args.meta.focalLengthIn35mm]
        /\ (/\ ~Present(args.meta.focalLengthIn35mm)
            /\ Present(args.meta.focalLength)
            /\ Present(args.meta.scaleFactor35efl)) =>
              result = [ok |-> TRUE,
                        value |-> RMul(args.meta.focalLength,
                                       args.meta.scaleFactor35efl)]

\* C1 (amended): whenever focalLengthIn35mm is present and not zero, getF35mm
\* returns exactly it, whatever the other fields hold; whenever it is absent or
\* zero and focalLength and scaleFactor35efl are both present and not zero,
\* getF35mm returns focalLength x scaleFactor35efl, whatever the focal-plane
\* fields hold.
C1_NonZeroWins ==
    op = "getF35mm" =>
        /\ (Present(args.meta.focalLengthIn35mm)
               /\ args.meta.focalLengthIn35mm # Zero) =>
              result = [ok |-> TRUE, value |-> args.meta.focalLengthIn35mm]
        /\ (/\ ~Present(args.meta.focalLengthIn35mm)
               \/ args.meta.focalLengthIn35mm = Zero
            /\ Present(args.meta.focalLength) /\ args.meta.focalLength # Zero
            /\ Present(args.meta.scaleFactor35efl)
            /\ args.meta.scaleFactor35efl # Zero) =>
              result = [ok |-> TRUE,
                        value |-> RMul(args.meta.focalLength,
                                       args.meta.scaleFactor35efl)]

\* A record where the direct tag and focalLength x scaleFactor35efl disagree
\* and a focal-plane derivation is possible too: the direct tag was returned.
C1_Witness ==
    /\ op = "getF35mm"
    /\ args.meta.focalLengthIn35mm = Num(50)
    /\ args.meta.focalLength = Num(10)
    /\ args.meta.scaleFactor35efl = Rat(3, 2)
    /\ f35mmFromFocalPlane(args.meta) # NULL
    /\ result = [ok |-> TRUE, value |-> Num(50)]

\* A record that lacks the required fields of all three strategies.
LacksAllStrategies(meta) ==
    /\ ~Present(meta.focalLengthIn35mm)
    /\ ~(Present(meta.focalLength) /\ Present(meta.scaleFactor35efl))
    /\ f35mmFromFocalPlane(meta) = NULL

\* C2: for a record that lacks the required fields of all three strategies,
\* getF35mm fails with the resolution error, and analyze of an image with such
\* a record fails with it and returns no result record.
C2_ResolutionFailure ==
    /\ (op = "getF35mm" /\ LacksAllStrategies(args.meta)) =>
          result = [ok |-> FALSE, error |-> ResolutionError]
    /\ (/\ op = "analyze"
        /\ extractExif(args.file).ok
        /\ LacksAllStrategies(MetaOf(args.file))) =>
          /\ ~result.ok
          /\ result.error = ResolutionError
          /\ DOMAIN result = {"ok", "error"}

\* analyze was called on an image with valid dimensions and a focal length
\* but nothing to derive the 35 mm equivalent from, and it failed.
C2_Witness ==
    /\ op = "analyze"
    /\ extractExif(args.file).ok
    /\ MetaOf(args.file).focalLength = Num(10)
    /\ LacksAllStrategies(MetaOf(args.file))
    /\ ~result.ok

\* C3: getF35mm either fails or returns a strictly positive focal length, for
\* every record, and so does the focal length analyze resolves.
C3_PositiveOrFails ==
    /\ op = "getF35mm" => (~result.ok \/ RLt(Zero, result.value))
    /\ op = "analyze" =>
          (~result.ok \/ RLt(Zero, result.value.focalLengthIn35mm))

\* What C4 says of a result r and the result `other` for the same record with
\* an orientation code in 1..4.
C4_Pair(r, other) ==
    /\ isRotated(r.orientation) =>
          /\ r.visualWidth = r.rawHeight
          /\ r.visualHeight = r.rawWidth
          /\ r.hfov = other.vfov
          /\ r.vfov = other.hfov
          /\ r.dfov = other.dfov
    /\ (r.visualWidth = r.rawHeight /\ r.visualHeight = r.rawWidth)
          <=> (r.hfov = other.vfov /\ r.vfov = other.hfov)
    /\ r.dfov = other.dfov
    /\ r.orientation \in {Num(c) : c \in 1..4} =>
          /\ r.visualWidth = r.rawWidth
          /\ r.visualHeight = r.rawHeight
          /\ r.hfov = other.hfov
          /\ r.vfov = other.vfov

\* C4: a result for an orientation code in 5..8 has the raw dimensions swapped
\* as its visual dimensions, and the hfov and vfov of the result for the same
\* record with any code in 1..4 exchanged, with the same dfov; a result for a
\* code in 1..4 has its raw dimensions as its visual dimensions and the same
\* hfov, vfov and dfov as for every other code in 1..4.  For every orientation
\* value (0, 9 and the default included) the hfov/vfov labels are exchanged
\* relative to the unrotated result exactly when the visual dimensions are the
\* raw ones exchanged (no image here is square, so the two are told apart),
\* and dfov is the same.
C4_OrientationSwap ==
    (op = "analyze" /\ result.ok) =>
        \A o \in 1..4 :
            /\ analyze("img", WithOrientation(args.file, o),
                       args.applyCloseFocusCorrection).ok
            /\ C4_Pair(result.value,
                       analyze("img", WithOrientation(args.file, o),
                               args.applyCloseFocusCorrection).value)

\* A rotated image (6 x 4 raw, orientation 8) was analysed: its visual
\* dimensions are 4 x 6 and its hfov is the narrower angle.
C4_Witness ==
    /\ op = "analyze"
    /\ result.ok
    /\ result.value.orientation = Num(8)
    /\ result.value.rawWidth = Num(6)
    /\ result.value.visualWidth = Num(4)
    /\ result.value.hfov # result.value.vfov
    /\ result.value.hfov = computeFov(result.value.focalLengthIn35mm).vfov

\* C5: adjustForOrientation returns the dimensions swapped for the codes 5, 6,
\* 7 and 8 and unchanged for every other orientation value (1..4, 0, 9, null).
C5_SwapExactlyFor5To8 ==
    op = "adjustForOrientation" =>
        IF args.orientation \in {Num(5), Num(6), Num(7), Num(8)}
        THEN result = [width |-> args.height, height |-> args.width]
        ELSE result = [width |-> args.width, height |-> args.height]

C5_Witness ==
    /\ op = "adjustForOrientation"
    /\ args.orientation = Num(7)
    /\ args.width = Num(6)
    /\ args.height = Num(4)
    /\ result = [width |-> Num(4), height |-> Num(6)]

C7_CloseFocusCases ==
    op = "closeFocusCorrectionFactor" =>
        IF args.focusDistM = NULL \/ RLeq(args.focusDistM, Zero)
        THEN result = One
        ELSE IF RLeq(RSub(RMul(Num(1000), args.focusDistM),
                          ToNumber(args.focalLengthMm)), Zero)
        THEN result = One
        ELSE result =
                RAdd(One,
                     RDiv(ToNumber(args.focalLengthMm),
                          RSub(RMul(Num(1000), args.focusDistM),
                               ToNumber(args.focalLengthMm))))

\* A 10 mm lens focused at 5 mm: d = 5 - 10 < 0, and the factor is 1.
C7_Witness ==
    /\ op = "closeFocusCorrectionFactor"
    /\ args.focalLengthMm = Num(10)
    /\ args.focusDistM = Rat(1, 200)
    /\ result = One

\* C8: the multiplier closeFocusCorrectionFactor returns is >= 1 for every
\* focal length and focus distance.
C8_FactorAtLeastOne ==
    op = "closeFocusCorrectionFactor" => RLeq(One, result)

\* C9: analyze with the close-focus correction on and off succeed or fail
\* together and return the same fPixelDiagonal and the same focalLengthIn35mm.
C9_CorrectionLeavesPixelFocal ==
    op = "analyze" =>
        /\ result.ok = analyze("img", args.file,
                               ~args.applyCloseFocusCorrection).ok
        /\ result.ok =>
              /\ result.value.fPixelDiagonal =
                    analyze("img", args.file,
                            ~args.applyCloseFocusCorrection).value.fPixelDiagonal
              /\ result.value.focalLengthIn35mm =
                    analyze("img", args.file,
                            ~args.applyCloseFocusCorrection).value.focalLengthIn35mm

\* analyze ran with the correction on, on a record where the factor is not 1:
\* the angles differ from those with the correction off.
C9_Witness ==
    /\ op = "analyze"
    /\ args.applyCloseFocusCorrection
    /\ result.ok
    /\ correctionOf(MetaOf(args.file), TRUE) # One
    /\ result.value.hfov # analyze("img", args.file, FALSE).value.hfov

\* The number of calls in the log that resolved.
RECURSIVE okCount(_)
okCount(l) ==
    IF l = <<>> THEN 0
    ELSE okCount(SubSeq(l, 1, Len(l) - 1)) + (IF l[Len(l)].ok THEN 1 ELSE 0)

\* While the loop runs and after it: the images analysed so far are the first
\* idx - 1 of imageFiles, each once and in order, each with the outcome analyze
\* has for that file alone, and each counted in exactly one counter.
BatchTallyInv ==
    phase \in {"loop", "summary", "done"} =>
        /\ Len(log) = idx - 1
        /\ idx <= Len(imageFiles) + 1
        /\ \A i \in 1..Len(log) :
              /\ log[i].name = imageFiles[i]
              /\ log[i].ok = analyze(imageFiles[i], entries[imageFiles[i]].file,
                                     FALSE).ok
        /\ successes = okCount(log)
        /\ successes + failures = Len(log)
        /\ phase \in {"summary", "done"} =>
              successes + failures = Len(imageFiles)

\* One pass of the loop increments exactly one counter, by one.
BatchOneCounterStep ==
    [][idx' # idx /\ phase = "loop" =>
          \/ successes' = successes + 1 /\ failures' = failures
          \/ successes' = successes /\ failures' = failures + 1]_vars

\* C10: in a batch run every image is analysed exactly once, in order, with
\* the outcome it has on its own; each increments exactly one counter, so that
\* successes + failures = N when the loop ends; and once the loop has started,
\* the summary and the shutdown are reached, whatever the outcomes.
C10_BatchContinues ==
    /\ []BatchTallyInv
    /\ BatchOneCounterStep
    /\ []((phase = "loop") => <>(phase = "done"))

\* A run over three images that all failed reached the shutdown.
C10_Witness ==
    /\ phase = "done"
    /\ Len(imageFiles) >= 2
    /\ successes = 0
    /\ failures = Len(imageFiles)

\* A number that is there and greater than zero.
Positive(v) == v # NULL /\ v # NaN /\ RLt(Zero, v)

\* C11: whenever the raw tags yield a width or height that is missing or not
\* positive (null, zero or negative), extractExif fails with the dimensions
\* error, so analyze rejects with that error and hands getF35mm and the other
\* core functions only records whose width and height are positive numbers.
C11_DimensionsPositiveOrFails ==
    (op = "analyze" /\ args.file.exif) =>
        /\ (~Positive(widthOf(args.file.tags))
               \/ ~Positive(heightOf(args.file.tags))) =>
              /\ extractExif(args.file) = [ok |-> FALSE, error |-> DimensionsError]
              /\ result = [ok |-> FALSE, error |-> DimensionsError]
        /\ extractExif(args.file).ok =>
              /\ Positive(MetaOf(args.file).width)
              /\ Positive(MetaOf(args.file).height)

\* The millimetres per resolution unit the unit codes stand for: inch,
\* centimetre, millimetre, micrometre.
UnitMillimetres ==
    (Num(2) :> Rat(254, 10)) @@ (Num(3) :> Num(10))
        @@ (Num(4) :> One) @@ (Num(5) :> Rat(1, 1000))

\* The multiplier of a unit code other than 1: a missing or unrecognised code
\* counts as inch.
MultiplierOf(unit) ==
    IF unit \in DOMAIN UnitMillimetres THEN UnitMillimetres[unit]
    ELSE UnitMillimetres[Num(2)]

\* The crop factor of one axis: reference dimension / ((pixels / resolution)
\* x multiplier). A resolution of 0 makes the actual dimension infinite and
\* the crop factor 0.
AxisCrop(reference, pixels, resolution, mul) ==
    IF resolution = Zero THEN Zero
    ELSE RDiv(Num(reference), RMul(RDiv(pixels, resolution), mul))

\* What the focal-plane derivation gives with multiplier mul when the width
\* axis resolves iff xOk and the height axis iff yOk.
PlaneDerivation(meta, mul, xOk, yOk) ==
    IF ~xOk /\ ~yOk THEN [ok |-> FALSE, error |-> ResolutionError]
    ELSE [ok |-> TRUE,
          value |->
              RMul(meta.focalLength,
                   IF xOk /\ yOk
                   THEN RDiv(RAdd(AxisCrop(36, meta.width,
                                           meta.focalPlaneXRes, mul),
                                  AxisCrop(24, meta.height,
                                           meta.focalPlaneYRes, mul)),
                             Num(2))
                   ELSE IF xOk
                   THEN AxisCrop(36, meta.width, meta.focalPlaneXRes, mul)
                   ELSE AxisCrop(24, meta.height, meta.focalPlaneYRes, mul))]

\* A field that is there and not zero.
NonZero(v) == Present(v) /\ v # Zero

\* A record with focalLength, no focalLengthIn35mm, no scaleFactor35efl and at
\* least one axis whose pixel dimension and resolution are there.
PlaneCase(meta) ==
    /\ ~Present(meta.focalLengthIn35mm)
    /\ ~Present(meta.scaleFactor35efl)
    /\ Present(meta.focalLength)
    /\ \/ Present(meta.width) /\ Present(meta.focalPlaneXRes)
       \/ Present(meta.height) /\ Present(meta.focalPlaneYRes)

C13_PresentAxesResolve ==
    (/\ op = "getF35mm"
     /\ ~Present(args.meta.focalLengthIn35mm)
     /\ ~Present(args.meta.scaleFactor35efl)
     /\ Present(args.meta.focalLength)
     /\ args.meta.focalPlaneUnit # Num(1)) =>
        result =
            PlaneDerivation(args.meta, MultiplierOf(args.meta.focalPlaneUnit),
                Present(args.meta.width) /\ Present(args.meta.focalPlaneXRes),
                Present(args.meta.height) /\ Present(args.meta.focalPlaneYRes))

\* C13 (amended): when getF35mm reaches the focal-plane derivation with a
\* focal length that is present and not zero and an available unit multiplier,
\* an axis resolves when its pixel dimension and its resolution are both
\* present and not zero; the derivation fails if neither resolves; otherwise
\* the value returned is focalLength x the crop factor of the one resolved axis
\* (36 or 24 / actual dimension) or the mean of the two.
C13_NonZeroAxesResolve ==
    (/\ op = "getF35mm"
     /\ ~NonZero(args.meta.focalLengthIn35mm)
     /\ ~NonZero(args.meta.scaleFactor35efl)
     /\ NonZero(args.meta.focalLength)
     /\ args.meta.focalPlaneUnit # Num(1)) =>
        result =
            PlaneDerivation(args.meta, MultiplierOf(args.meta.focalPlaneUnit),
                NonZero(args.meta.width) /\ NonZero(args.meta.focalPlaneXRes),
                NonZero(args.meta.height) /\ NonZero(args.meta.focalPlaneYRes))

\* Both axes of a 6 x 4 image resolved, in millimetres, with crop factors 600
\* and 1200: getF35mm returned 10 mm x 900.
C13_Witness ==
    /\ op = "getF35mm"
    /\ ~Present(args.meta.focalLengthIn35mm)
    /\ ~Present(args.meta.scaleFactor35efl)
    /\ args.meta.focalLength = Num(10)
    /\ args.meta.focalPlaneUnit = Num(4)
    /\ args.meta.width = Num(6)
    /\ args.meta.height = Num(4)
    /\ args.meta.focalPlaneXRes = Num(100)
    /\ args.meta.focalPlaneYRes = Num(200)
    /\ result = [ok |-> TRUE, value |-> Num(9000)]

=============================================================================
